---- MODULE Spec2Model ----
(***************************************************************************)
(* A model of the GitHub release / master-branch downloader.               *)
(*                                                                         *)
(*   src/github_downloader.py               the single-repository variant  *)
(*   src/Experimantal/github_downloader.py  the multi-repository variant   *)
(*                                                                         *)
(* Strings are sequences of tokens.  A token is one character of a value   *)
(* that comes from outside ("o", "a", ",", "/") or one string literal of   *)
(* the source kept whole ("_master.zip", "version_info_release.txt").      *)
(* A URL is a token sequence whose first token is scheme and host, so that *)
(* urlparse(url).path is its tail.                                         *)
(***************************************************************************)
EXTENDS Integers, Sequences, FiniteSets, TLC

VARIABLES
    variant,       \* "single" | "multi": which of the two scripts runs
    repositories,  \* the configured repository URLs (CLI argument / file lines)
    remote,        \* what the hosting API reports for each existing repository
    files,         \* the local file system: path -> content
    dirs,          \* directories created by os.makedirs
    jobs,          \* the tasks registered with schedule.every().day.at(...)
    pc,            \* position of the (single-threaded) process
    idx,           \* position of main()'s loop in repositories
    job,           \* position of run_pending() in jobs
    caller,        \* "initial" | "daily": who called the two syncs
    cur,           \* arguments of the running initial_download / daily_check
    sync,          \* the running (or last finished) sync attempt, with its log
    touched,       \* which list entries caused a request, a directory, a task,
                   \* and which syncs of which entries have ended as updated
    ticks, publishes, faults   \* counters that bound the model

vars == <<variant, repositories, remote, files, dirs, jobs, pc, idx, job,
          caller, cur, sync, touched, ticks, publishes, faults>>

----------------------------------------------------------------------------
(* Bounds of the model *)

MaxTicks == 2
MaxPublishes == 1
MaxFaults == 2

----------------------------------------------------------------------------
(* String functions of the Python runtime, as the source uses them *)

\* str.split(sep): always at least one field, empty fields are kept
RECURSIVE Split(_, _)
Split(s, sep) ==
    IF s = <<>> THEN << <<>> >>
    ELSE LET rest == Split(Tail(s), sep) IN
         IF Head(s) = sep THEN << <<>> >> \o rest
         ELSE << <<Head(s)>> \o Head(rest) >> \o Tail(rest)

RECURSIVE LStrip(_, _)
LStrip(s, chars) ==
    IF s # <<>> /\ Head(s) \in chars THEN LStrip(Tail(s), chars) ELSE s

RECURSIVE RStrip(_, _)
RStrip(s, chars) ==
    IF s # <<>> /\ s[Len(s)] \in chars
    THEN RStrip(SubSeq(s, 1, Len(s) - 1), chars) ELSE s

\* str.strip(chars)
Strip(s, chars) == RStrip(LStrip(s, chars), chars)

\* str.strip() without argument strips white space
Whitespace == {" ", "\t", "\n"}

\* os.path.join(dir, name), a path being the sequence of its components
Join(dir, name) == Append(dir, name)

\* Python's None, and the falsy values of "not owner"
None == <<"None">>
Falsy(s) == s = None \/ s = <<>>

----------------------------------------------------------------------------
(* Configuration *)

DEFAULT_DOWNLOAD_DIR == << <<"downloads">> >>
VERSION_FILE_RELEASE == <<"version_info_release.txt">>
VERSION_FILE_MASTER == <<"version_info_master.txt">>
RELEASE_NOTES_FILE == <<"release_notes.txt">>

WebHost == "https://github.com"
ApiHost == "https://api.github.com"

\* urlparse(url).path
UrlPath(url) == Tail(url)

\* path_parts = parsed_url.path.strip("/").split("/")
PathParts(url) == Split(Strip(UrlPath(url), {"/"}), "/")

\* Experimantal: parse_github_url(repo_url) -> (owner, repo) or (None, None)
parse_github_url(repo_url) ==
    LET path_parts == PathParts(repo_url) IN
    IF Len(path_parts) < 2 THEN <<None, None>>
    ELSE <<path_parts[1], path_parts[2]>>

\* Mutant of Accepted: the result of the parse is not checked
Accepted_unchecked(v, repo_url) == TRUE

\* Whether the script goes on with this URL, and with which owner and repo:
\* the single variant exits on len(path_parts) < 2 alone, the multi variant
\* also returns when owner or repo is falsy.
Accepted(v, repo_url) ==
    LET p == parse_github_url(repo_url) IN
    IF v = "single" THEN Len(PathParts(repo_url)) >= 2
    ELSE ~Falsy(p[1]) /\ ~Falsy(p[2])

\* get_github_api_url(owner, repo) / GITHUB_API_URL
get_github_api_url(owner, repo) ==
    <<ApiHost, "/", "repos", "/">> \o owner \o <<"/">> \o repo

\* The local paths of one repository.  The single variant keeps the state
\* files and the notes in the working directory and every download directly
\* in DOWNLOAD_DIR; the multi variant keeps everything under
\* DOWNLOAD_DIR/<repo>, the assets in its "releases" subdirectory.
repo_dir(v, repo) ==
    IF v = "single" THEN <<>> ELSE Join(DEFAULT_DOWNLOAD_DIR, repo)

releases_dir(v, repo) ==
    IF v = "single" THEN DEFAULT_DOWNLOAD_DIR
    ELSE Join(repo_dir(v, repo), <<"releases">>)

version_file_release(v, repo) == Join(repo_dir(v, repo), VERSION_FILE_RELEASE)
version_file_master(v, repo) == Join(repo_dir(v, repo), VERSION_FILE_MASTER)
release_notes_file(v, repo) == Join(repo_dir(v, repo), RELEASE_NOTES_FILE)

master_zip_path(v, repo) ==
    IF v = "single" THEN Join(DEFAULT_DOWNLOAD_DIR, repo \o <<"_master.zip">>)
    ELSE Join(repo_dir(v, repo), repo \o <<"_master.zip">>)

\* The archive URL check_and_download_master builds.  The single variant
\* uses GITHUB_OWNER and GITHUB_REPO; the multi variant parses the API URL
\* again with parse_github_url and takes its first two path segments.
ArchiveUrl(owner, repo, branch) ==
    <<WebHost, "/">> \o owner \o <<"/">> \o repo
        \o <<"/", "archive", "/", "refs", "/", "heads", "/">> \o branch \o <<".zip">>

master_zip_url(v, owner, repo, branch) ==
    IF v = "single" THEN ArchiveUrl(owner, repo, branch)
    ELSE LET api_url == get_github_api_url(owner, repo) IN
         ArchiveUrl(parse_github_url(api_url)[1], parse_github_url(api_url)[2], branch)

----------------------------------------------------------------------------
(* The inputs: repository lists and what the remote can report *)

Url(path) == <<WebHost>> \o path

RepoUrls ==
    { Url(<<"/", "o", "/", "r">>),        \* owner o, repo r
      Url(<<"/", "o">>),                  \* no repo segment
      Url(<<"/", "o", "/">>),             \* no repo segment, trailing slash
      Url(<<"/", "/", "r">>),             \* no owner segment
      Url(<<>>),                          \* no path at all
      Url(<<"/", "o", "/", "/", "r">>) }  \* an empty segment between owner and repo

\* The repository lists of the model: the single variant takes one URL from
\* the command line, the multi variant the lines of the repositories file
\* (among them two owners with the same repo name, and one owner's two repos).
RepositoryLists(v) ==
    { <<u>> : u \in RepoUrls } \cup
    IF v = "single" THEN {}
    ELSE { <<Url(<<"/", "o", "/", "r">>), Url(<<"/", "p", "/", "r">>)>>,
           <<Url(<<"/", "o", "/", "r">>), Url(<<"/", "o", "/", "s">>)>>,
           <<Url(<<"/", "o">>), Url(<<"/", "o", "/", "r">>)>>,
           <<Url(<<"/", "o", "/", "r">>), Url(<<"/", "/", "r">>)>>,
           <<Url(<<"/", "o", "/", "/", "r">>), Url(<<"/", "o", "/", "s">>)>> }

\* The repositories that exist at the remote
ExistingRepos == { << <<"o">>, <<"r">> >>, << <<"p">>, <<"r">> >>, << <<"o">>, <<"s">> >> }

\* The releases a repository can report as its latest: tags and target
\* commitishes are git ref names, which may hold a comma but no white space.
\* An asset has the name its publisher gave it, "r_master.zip" for one.
RemoteReleases ==
    { [tag_name |-> <<"a">>, target_commitish |-> <<"c">>, asset_names |-> << <<"x">>, <<"y">> >>],
      [tag_name |-> <<"b">>, target_commitish |-> <<"c">>, asset_names |-> << <<"x">> >>],
      [tag_name |-> <<"a">>, target_commitish |-> <<"d">>,
           asset_names |-> << <<"x">>, <<"r", "_master.zip">> >>],
      [tag_name |-> <<"b">>, target_commitish |-> <<"d">>, asset_names |-> <<>>],
      [tag_name |-> <<"a", ",", "b">>, target_commitish |-> <<"c">>, asset_names |-> << <<"x">> >>] }

\* The commit ids a branch head can have (hexadecimal, so without a comma)
Shas == { <<"e">>, <<"f">> }

\* What the remote reports when the script starts: one of two releases (a
\* plain tag, a tag with a comma) and a head commit; Publish reaches the rest.
InitialReleases ==
    { r \in RemoteReleases :
        r.target_commitish = <<"c">> /\ r.tag_name \in { <<"a">>, <<"a", ",", "b">> } }

InitialSha(key) == IF key[1] = <<"o">> THEN <<"e">> ELSE <<"f">>

InitialRemotes(keys) ==
    { rem \in [keys -> [release : InitialReleases, sha : Shas]] :
        \A k \in keys : rem[k].sha = InitialSha(k) }

\* The (owner, repo) pairs a list makes the script poll
PolledRepos(v, urls) ==
    { <<parse_github_url(urls[i])[1], parse_github_url(urls[i])[2]>> :
        i \in { j \in 1..Len(urls) : Accepted(v, urls[j]) } }

\* The asset's browser_download_url as the API reports it
AssetUrl(owner, repo, tag, name) ==
    <<WebHost, "/">> \o owner \o <<"/">> \o repo
        \o <<"/", "releases", "/", "download", "/">> \o tag \o <<"/">> \o name

\* response.json() of GET {api_url}/releases/latest
get_latest_release(owner, repo) ==
    LET r == remote[<<owner, repo>>].release IN
    [tag_name |-> r.tag_name,
     target_commitish |-> r.target_commitish,
     assets |-> [i \in 1..Len(r.asset_names) |->
                   [name |-> r.asset_names[i],
                    browser_download_url |->
                        AssetUrl(owner, repo, r.tag_name, r.asset_names[i])]]]

\* response.json() of GET {api_url}/commits/{branch}
get_latest_commit(owner, repo) == [sha |-> remote[<<owner, repo>>].sha]

----------------------------------------------------------------------------
(* Files *)

NoFiles == <<>>

exists(fs, path) == path \in DOMAIN fs

Put(fs, path, content) ==
    [p \in DOMAIN fs \cup {path} |-> IF p = path THEN content ELSE fs[p]]

\* What a completed and what an interrupted download leaves at dest
Body(url) == <<"bytes of">> \o url
Partial(url) == <<"part of">> \o url

\* f"{a},{b}": the record the syncs write to their state file
Format(a, b) == a \o <<",">> \o b

\* file.read().strip().split(','): the fields the syncs read back
ReadFields(content) == Split(Strip(content, Whitespace), ",")

\* The ways download_file(url, dest) can end.
\*   ok             the body is written to dest
\*   request_error  requests.get or raise_for_status raises before dest is opened
\*   stream_error   iter_content raises a RequestException after dest was opened
\*   open_oserror   open(dest, 'wb') raises OSError
\*   write_oserror  file.write(chunk) raises OSError
\* download_file catches requests.exceptions.RequestException only: the two
\* OSError outcomes leave it as an exception (raised).
DownloadOutcomes ==
    {"ok", "request_error", "stream_error", "open_oserror", "write_oserror"}

RequestFailures == {"request_error", "stream_error"}
LocalFailures == {"open_oserror", "write_oserror"}

\* Mutant of download_file: the try block ends before the body is streamed
download_file_stream_uncaught(fs, url, dest, outcome) ==
    [files |-> CASE outcome = "ok" -> Put(fs, dest, Body(url))
                 [] outcome \in {"stream_error", "write_oserror"} -> Put(fs, dest, Partial(url))
                 [] OTHER -> fs,
     raised |-> outcome \in LocalFailures \cup {"stream_error"}]

\* Mutant of download_file: no try/except around the request
download_file_uncaught(fs, url, dest, outcome) ==
    [files |-> CASE outcome = "ok" -> Put(fs, dest, Body(url))
                 [] outcome \in {"stream_error", "write_oserror"} -> Put(fs, dest, Partial(url))
                 [] OTHER -> fs,
     raised |-> outcome # "ok"]

download_file(fs, url, dest, outcome) ==
    [files |-> CASE outcome = "ok" -> Put(fs, dest, Body(url))
                 [] outcome \in {"stream_error", "write_oserror"} -> Put(fs, dest, Partial(url))
                 [] OTHER -> fs,
     raised |-> outcome \in LocalFailures]

----------------------------------------------------------------------------
(* Initial state *)

NoSync ==
    [kind |-> "none", owner |-> <<>>, repo |-> <<>>, idx |-> 0, done |-> TRUE,
     result |-> "none", fetch |-> "none", fetched |-> <<>>, assets |-> <<>>,
     reqs |-> <<>>, before |-> NoFiles, error |-> "none", prev |-> "none"]

NoArgs == [owner |-> <<>>, repo |-> <<>>, idx |-> 0]

Init ==
    /\ variant \in {"single", "multi"}
    /\ repositories \in RepositoryLists(variant)
    /\ remote \in InitialRemotes(PolledRepos(variant, repositories) \cap ExistingRepos)
    /\ files = NoFiles
    /\ dirs = {}
    /\ jobs = <<>>
    /\ pc = "start"
    /\ idx = 1
    /\ job = 0
    /\ caller = "none"
    /\ cur = NoArgs
    /\ sync = NoSync
    /\ touched = [net |-> {}, dir |-> {}, task |-> {}, synced |-> {}]
    /\ ticks = 0
    /\ publishes = 0
    /\ faults = 0

----------------------------------------------------------------------------
(* Helpers of the actions *)

\* A sync function is entered.  prev: how the sync before it in the same
\* initial_download / daily_check ended ("none" for the first of the two).
StartSync(kind, args, prev) ==
    [kind |-> kind, owner |-> args.owner, repo |-> args.repo, idx |-> args.idx,
     done |-> FALSE, result |-> "running", fetch |-> "none", fetched |-> <<>>,
     assets |-> <<>>, reqs |-> <<>>, before |-> files, error |-> "none",
     prev |-> prev]

\* The sync function returns: by its "return" (unchanged), at its end
\* (updated) or through one of its two except clauses (failed).
Finish(s, result, error) == [s EXCEPT !.done = TRUE, !.result = result, !.error = error]

Key(args) == <<args.owner, args.repo>>

\* The exceptions of the model.  Each of them derives from Exception, which
\* KeyboardInterrupt does not.
Exceptions ==
    {"http_error", "network_error", "request_error", "stream_error",
     "ValueError", "open_oserror", "write_oserror"}

\* Mutant of Caught: the sync functions have the HTTPError clause only
Caught_http_only(error) == error = "http_error"

\* The except clauses of the two sync functions:
\*   except requests.exceptions.HTTPError   (logged as an HTTP error)
\*   except Exception                       (logged as an unknown error)
Caught(error) == error = "http_error" \/ error \in Exceptions

\* An exception is raised inside the try block of a sync function: the sync
\* ends as failed when a clause catches it; else it leaves the function and
\* the process dies of it.
Except(s, error, done_pc) ==
    IF Caught(error)
    THEN sync' = Finish(s, "failed", error) /\ pc' = done_pc
    ELSE sync' = [s EXCEPT !.error = error] /\ pc' = "crashed"

\* Mutant of fetch_failed: the getter logs the error itself and returns an
\* empty document, so the sync goes on to its download
fetch_failed_swallowed(s, e, done_pc) ==
    /\ sync' = [s EXCEPT !.fetch = e, !.fetched = << <<>>, <<>> >>]
    /\ pc' = IF done_pc = "m_done" THEN "m_download" ELSE "r_notes"

\* get_latest_commit / get_latest_release raises (raise_for_status, or the
\* request itself): the first statement of the try block fails
fetch_failed(s, e, done_pc) == Except([s EXCEPT !.fetch = e], e, done_pc)

\* Mutant of master_up_to_date: the branch name is compared, not the hash
master_up_to_date_wrong_field(fields, latest_commit_hash) ==
    fields[1] = latest_commit_hash

\* if current_hash == latest_commit_hash  (fields: the record read back)
master_up_to_date(fields, latest_commit_hash) == fields[2] = latest_commit_hash

\* if current_version == latest_version and current_hash == latest_commit_hash
release_up_to_date(fields, latest_version, latest_commit_hash) ==
    fields[1] = latest_version /\ fields[2] = latest_commit_hash

\* A failure the environment injects is counted against MaxFaults
CanFail == faults < MaxFaults

AfterList(i) == IF i > Len(repositories) THEN "idle" ELSE "start"

----------------------------------------------------------------------------
(* process_repository / the module-level setup of the single variant *)

\* Parse the URL; reject it, or create the directories and decide whether
\* the initial download runs.
process_repository ==
    /\ pc = "start"
    /\ LET repo_url == repositories[idx]
           p == parse_github_url(repo_url)
           args == [owner |-> p[1], repo |-> p[2], idx |-> idx]
       IN IF ~Accepted(variant, repo_url)
          THEN \* single: exit(1); multi: return, main goes on with the next URL
               /\ pc' = IF variant = "single" THEN "exited" ELSE AfterList(idx + 1)
               /\ idx' = IF variant = "single" THEN idx ELSE idx + 1
               /\ UNCHANGED <<dirs, touched, cur, caller, sync>>
          ELSE /\ dirs' = dirs \cup
                     (IF variant = "single" THEN {DEFAULT_DOWNLOAD_DIR}
                      ELSE {DEFAULT_DOWNLOAD_DIR, repo_dir(variant, p[2]),
                            releases_dir(variant, p[2])})
               /\ touched' = [touched EXCEPT !.dir = @ \cup {idx}]
               /\ cur' = args
               /\ idx' = idx
               /\ IF \/ ~exists(files, version_file_master(variant, p[2]))
                     \/ ~exists(files, version_file_release(variant, p[2]))
                  THEN \* initial_download: the master sync comes first
                       /\ pc' = "m_fetch"
                       /\ caller' = "initial"
                       /\ sync' = StartSync("master", args, "none")
                  ELSE /\ pc' = "schedule"
                       /\ UNCHANGED <<caller, sync>>
    /\ UNCHANGED <<variant, repositories, remote, files, jobs, job,
                   ticks, publishes, faults>>

\* schedule.every().day.at("10:00").do(daily_check, ...)
schedule_daily_check ==
    /\ pc = "schedule"
    /\ jobs' = Append(jobs, cur)
    /\ touched' = [touched EXCEPT !.task = @ \cup {cur.idx}]
    /\ idx' = idx + 1
    /\ pc' = AfterList(idx + 1)
    /\ UNCHANGED <<variant, repositories, remote, files, dirs, job, caller, cur,
                   sync, ticks, publishes, faults>>

\* schedule.run_pending() at the scheduled time: the registered tasks run one
\* after the other, each daily_check to its end.
run_pending ==
    /\ pc = "idle"
    /\ ticks < MaxTicks
    /\ ticks' = ticks + 1
    /\ IF jobs = <<>>
       THEN UNCHANGED <<pc, job, cur, caller, sync>>
       ELSE /\ job' = 1
            /\ cur' = jobs[1]
            /\ caller' = "daily"
            /\ pc' = "m_fetch"
            /\ sync' = StartSync("master", jobs[1], "none")
    /\ UNCHANGED <<variant, repositories, remote, files, dirs, jobs, idx,
                   touched, publishes, faults>>

----------------------------------------------------------------------------
(* check_and_download_master *)

\* get_latest_commit, then the comparison with the state file
master_fetch ==
    /\ pc = "m_fetch"
    /\ touched' = [touched EXCEPT !.net = @ \cup {cur.idx}]
    /\ \/ \* the request fails: HTTPError or another RequestException
          \E e \in {"http_error", "network_error"} :
            /\ \/ CanFail /\ faults' = faults + 1
               \/ Key(cur) \notin DOMAIN remote /\ e = "http_error" /\ faults' = faults
            /\ fetch_failed(sync, e, "m_done")
       \/ /\ Key(cur) \in DOMAIN remote
          /\ faults' = faults
          /\ LET latest_commit_hash == get_latest_commit(cur.owner, cur.repo).sha
                 vf == version_file_master(variant, cur.repo)
                 s == [sync EXCEPT !.fetch = "ok", !.fetched = <<latest_commit_hash>>]
             IN IF exists(files, vf)
                THEN LET fields == ReadFields(files[vf]) IN
                     IF Len(fields) # 2
                     THEN \* "_, current_hash = ..." raises ValueError
                          Except(s, "ValueError", "m_done")
                     ELSE IF master_up_to_date(fields, latest_commit_hash)
                          THEN /\ sync' = Finish(s, "unchanged", "none")
                               /\ pc' = "m_done"
                          ELSE /\ sync' = s
                               /\ pc' = "m_download"
                ELSE /\ sync' = s
                     /\ pc' = "m_download"
    /\ UNCHANGED <<variant, repositories, remote, files, dirs, jobs, idx, job,
                   caller, cur, ticks, publishes>>

\* download_file(master_zip_url, master_zip_path)
master_download ==
    /\ pc = "m_download"
    /\ \E outcome \in DownloadOutcomes :
         LET url == master_zip_url(variant, cur.owner, cur.repo, <<"master">>)
             dest == master_zip_path(variant, cur.repo)
             d == download_file(files, url, dest, outcome)
             s == [sync EXCEPT !.reqs = Append(@, [url |-> url, dest |-> dest,
                                                   outcome |-> outcome])]
         IN /\ IF outcome = "ok" THEN faults' = faults
                                 ELSE CanFail /\ faults' = faults + 1
            /\ files' = d.files
            /\ IF d.raised
               THEN Except(s, outcome, "m_done")
               ELSE sync' = s /\ pc' = "m_open"
    /\ UNCHANGED <<variant, repositories, remote, dirs, jobs, idx, job, caller,
                   cur, touched, ticks, publishes>>

\* open(version_file_master, 'w'): the file is created or truncated
master_open ==
    /\ pc = "m_open"
    /\ \/ /\ files' = Put(files, version_file_master(variant, cur.repo), <<>>)
          /\ pc' = "m_write"
          /\ UNCHANGED <<sync, faults>>
       \/ /\ CanFail /\ faults' = faults + 1
          /\ Except(sync, "open_oserror", "m_done")
          /\ UNCHANGED files
    /\ UNCHANGED <<variant, repositories, remote, dirs, jobs, idx, job, caller,
                   cur, touched, ticks, publishes>>

\* file.write(f"{branch},{latest_commit_hash}") and the close of the file
master_write ==
    /\ pc = "m_write"
    /\ \/ /\ files' = Put(files, version_file_master(variant, cur.repo),
                          Format(<<"master">>, sync.fetched[1]))
          /\ sync' = Finish(sync, "updated", "none")
          /\ touched' = [touched EXCEPT !.synced = @ \cup {<<"master", cur.idx>>}]
          /\ pc' = "m_done"
          /\ UNCHANGED faults
       \/ /\ CanFail /\ faults' = faults + 1
          /\ Except(sync, "write_oserror", "m_done")
          /\ UNCHANGED <<files, touched>>
    /\ UNCHANGED <<variant, repositories, remote, dirs, jobs, idx, job, caller,
                   cur, ticks, publishes>>

\* Mutant of master_return: initial_download / daily_check call the branch
\* sync alone and return
master_return_without_release ==
    /\ pc = "m_done"
    /\ pc' = "r_done"
    /\ UNCHANGED <<variant, repositories, remote, files, dirs, jobs, idx, job,
                   caller, cur, sync, touched, ticks, publishes, faults>>

\* check_and_download_master has returned: check_and_download_release is next
master_return ==
    /\ pc = "m_done"
    /\ pc' = "r_fetch"
    /\ sync' = StartSync("release", cur, sync.result)
    /\ UNCHANGED <<variant, repositories, remote, files, dirs, jobs, idx, job,
                   caller, cur, touched, ticks, publishes, faults>>

check_and_download_master ==
    master_fetch \/ master_download \/ master_open \/ master_write \/ master_return

----------------------------------------------------------------------------
(* check_and_download_release *)

\* get_latest_release, then the comparison with the state file
release_fetch ==
    /\ pc = "r_fetch"
    /\ touched' = [touched EXCEPT !.net = @ \cup {cur.idx}]
    /\ \/ \E e \in {"http_error", "network_error"} :
            /\ \/ CanFail /\ faults' = faults + 1
               \/ Key(cur) \notin DOMAIN remote /\ e = "http_error" /\ faults' = faults
            /\ fetch_failed(sync, e, "r_done")
       \/ /\ Key(cur) \in DOMAIN remote
          /\ faults' = faults
          /\ LET latest_release == get_latest_release(cur.owner, cur.repo)
                 latest_version == latest_release.tag_name
                 latest_commit_hash == latest_release.target_commitish
                 vf == version_file_release(variant, cur.repo)
                 s == [sync EXCEPT !.fetch = "ok",
                                   !.fetched = <<latest_version, latest_commit_hash>>,
                                   !.assets = latest_release.assets]
                 download == /\ sync' = s
                             /\ pc' = IF Len(latest_release.assets) = 0
                                      THEN "r_notes" ELSE "r_asset"
             IN IF exists(files, vf)
                THEN LET fields == ReadFields(files[vf]) IN
                     IF Len(fields) # 2
                     THEN \* "current_version, current_hash = ..." raises ValueError
                          Except(s, "ValueError", "r_done")
                     ELSE IF release_up_to_date(fields, latest_version, latest_commit_hash)
                          THEN /\ sync' = Finish(s, "unchanged", "none")
                               /\ pc' = "r_done"
                          ELSE download
                ELSE download
    /\ UNCHANGED <<variant, repositories, remote, files, dirs, jobs, idx, job,
                   caller, cur, ticks, publishes>>

\* download_release_assets: one turn of its loop, download_file for the
\* next asset of the release
download_release_assets ==
    /\ pc = "r_asset"
    /\ \E outcome \in DownloadOutcomes :
         LET i == Len(sync.reqs) + 1
             asset_url == sync.assets[i].browser_download_url
             asset_name == sync.assets[i].name
             dest_path == Join(releases_dir(variant, cur.repo), asset_name)
             d == download_file(files, asset_url, dest_path, outcome)
             s == [sync EXCEPT !.reqs = Append(@, [url |-> asset_url, dest |-> dest_path,
                                                   outcome |-> outcome])]
         IN /\ IF outcome = "ok" THEN faults' = faults
                                 ELSE CanFail /\ faults' = faults + 1
            /\ files' = d.files
            /\ IF d.raised
               THEN Except(s, outcome, "r_done")
               ELSE /\ sync' = s
                    /\ pc' = IF i = Len(sync.assets) THEN "r_notes" ELSE "r_asset"
    /\ UNCHANGED <<variant, repositories, remote, dirs, jobs, idx, job, caller,
                   cur, touched, ticks, publishes>>

\* generate_release_notes([], release_notes_file): the heading and no entry
generate_release_notes ==
    /\ pc = "r_notes"
    /\ LET path == release_notes_file(variant, cur.repo) IN
       \/ /\ files' = Put(files, path, <<"Release Notes\n", "=============\n\n">>)
          /\ pc' = "r_open"
          /\ UNCHANGED <<sync, faults>>
       \/ \E e \in LocalFailures :
            /\ CanFail /\ faults' = faults + 1
            /\ files' = IF e = "open_oserror" THEN files ELSE Put(files, path, <<>>)
            /\ Except(sync, e, "r_done")
    /\ UNCHANGED <<variant, repositories, remote, dirs, jobs, idx, job, caller,
                   cur, touched, ticks, publishes>>

\* open(version_file, 'w'): the file is created or truncated
release_open ==
    /\ pc = "r_open"
    /\ \/ /\ files' = Put(files, version_file_release(variant, cur.repo), <<>>)
          /\ pc' = "r_write"
          /\ UNCHANGED <<sync, faults>>
       \/ /\ CanFail /\ faults' = faults + 1
          /\ Except(sync, "open_oserror", "r_done")
          /\ UNCHANGED files
    /\ UNCHANGED <<variant, repositories, remote, dirs, jobs, idx, job, caller,
                   cur, touched, ticks, publishes>>

\* file.write(f"{latest_version},{latest_commit_hash}") and the close
release_write ==
    /\ pc = "r_write"
    /\ \/ /\ files' = Put(files, version_file_release(variant, cur.repo),
                          Format(sync.fetched[1], sync.fetched[2]))
          /\ sync' = Finish(sync, "updated", "none")
          /\ touched' = [touched EXCEPT !.synced = @ \cup {<<"release", cur.idx>>}]
          /\ pc' = "r_done"
          /\ UNCHANGED faults
       \/ /\ CanFail /\ faults' = faults + 1
          /\ Except(sync, "write_oserror", "r_done")
          /\ UNCHANGED <<files, touched>>
    /\ UNCHANGED <<variant, repositories, remote, dirs, jobs, idx, job, caller,
                   cur, ticks, publishes>>

\* check_and_download_release has returned: to process_repository after the
\* initial download, to run_pending (its next task, or the sleep) otherwise
release_return ==
    /\ pc = "r_done"
    /\ IF caller = "initial"
       THEN /\ pc' = "schedule"
            /\ UNCHANGED <<job, cur, sync>>
       ELSE IF job < Len(jobs)
            THEN /\ job' = job + 1
                 /\ cur' = jobs[job + 1]
                 /\ pc' = "m_fetch"
                 /\ sync' = StartSync("master", jobs[job + 1], "none")
            ELSE /\ pc' = "idle"
                 /\ UNCHANGED <<job, cur, sync>>
    /\ UNCHANGED <<variant, repositories, remote, files, dirs, jobs, idx,
                   caller, touched, ticks, publishes, faults>>

check_and_download_release ==
    \/ release_fetch \/ download_release_assets \/ generate_release_notes
    \/ release_open \/ release_write \/ release_return

----------------------------------------------------------------------------
(* The environment *)

\* The process is interrupted (KeyboardInterrupt) or killed.  In the loop of
\* main the interrupt is caught and logged; anywhere else it ends the
\* process as well.  The files stay as they are at that moment.
KeyboardInterrupt ==
    /\ pc \notin {"stopped", "exited", "crashed"}
    /\ pc' = "stopped"
    /\ UNCHANGED <<variant, repositories, remote, files, dirs, jobs, idx, job,
                   caller, cur, sync, touched, ticks, publishes, faults>>

\* A new commit is pushed to the branch, or a new release is published.
\* The script reads the head commit only in get_latest_commit and the release
\* only in get_latest_release, so a change is placed right before the fetch
\* that can see it.
Publish ==
    /\ publishes < MaxPublishes
    /\ Key(cur) \in DOMAIN remote
    /\ \/ /\ pc = "m_fetch"
          /\ \E sha \in Shas \ {remote[Key(cur)].sha} :
               remote' = [remote EXCEPT ![Key(cur)].sha = sha]
       \/ /\ pc = "r_fetch"
          /\ \E r \in RemoteReleases \ {remote[Key(cur)].release} :
               remote' = [remote EXCEPT ![Key(cur)].release = r]
    /\ publishes' = publishes + 1
    /\ UNCHANGED <<variant, repositories, files, dirs, jobs, pc, idx, job,
                   caller, cur, sync, touched, ticks, faults>>

Next ==
    \/ process_repository
    \/ schedule_daily_check
    \/ run_pending
    \/ check_and_download_master
    \/ check_and_download_release
    \/ KeyboardInterrupt
    \/ Publish

Spec == Init /\ [][Next]_vars

\* The single-repository script alone
InitSingle == Init /\ variant = "single"
SpecSingle == InitSingle /\ [][Next]_vars

----------------------------------------------------------------------------
(* Vocabulary of the claims *)

\* The state files and the archive of the repository the sync record is about
ReleaseStateFile == version_file_release(variant, sync.repo)
BranchStateFile == version_file_master(variant, sync.repo)

\* A file is the same in two file systems: absent in both, or equal content
SameFile(fs1, fs2, path) ==
    /\ exists(fs1, path) <=> exists(fs2, path)
    /\ exists(fs1, path) => fs1[path] = fs2[path]

\* The sync made a request for every asset of the fetched release, in order
EveryAssetRequested ==
    /\ Len(sync.reqs) = Len(sync.assets)
    /\ \A i \in 1..Len(sync.reqs) :
         /\ sync.reqs[i].url = sync.assets[i].browser_download_url
         /\ sync.reqs[i].dest =
                Join(releases_dir(variant, sync.repo), sync.assets[i].name)

\* The sync ended through an OSError of a local file operation
EndedByLocalError == sync.error \in LocalFailures

\* The pairs a release state file can have been written from
KnownPairs == { <<r.tag_name, r.target_commitish>> : r \in RemoteReleases }

\* A finished release sync whose fetch succeeded
ReleaseSyncDone == sync.kind = "release" /\ sync.done /\ sync.fetch = "ok"

\* A finished branch sync whose fetch succeeded
BranchSyncDone == sync.kind = "master" /\ sync.done /\ sync.fetch = "ok"

----------------------------------------------------------------------------
(* C1: Release Sync is idempotent.  In every call of                       *)
(* check_and_download_release in which the fetched (tag_name,              *)
(* target_commitish) pair equals the persisted pair, no asset download is  *)
(* requested, the files are the same after the call as before it, and the  *)
(* call ends as unchanged.                                                 *)
C1_IdempotentAsClaimed ==
    ( /\ sync.kind = "release" /\ sync.fetch = "ok"
      /\ exists(sync.before, ReleaseStateFile)
      /\ sync.before[ReleaseStateFile] = Format(sync.fetched[1], sync.fetched[2]) )
    => /\ sync.done /\ sync.result = "unchanged"
       /\ sync.reqs = <<>>
       /\ files = sync.before

\* What holds of the code in the case of C1, whatever the persisted pair: no
\* request, no change of any file, never "updated"; and "unchanged" whenever
\* the record reads back as two fields.
C1_NoDownloadNoChange ==
    ( /\ sync.kind = "release" /\ sync.fetch = "ok"
      /\ exists(sync.before, ReleaseStateFile)
      /\ sync.before[ReleaseStateFile] = Format(sync.fetched[1], sync.fetched[2]) )
    => /\ sync.done /\ sync.result # "updated"
       /\ sync.reqs = <<>>
       /\ files = sync.before
       /\ Len(ReadFields(sync.before[ReleaseStateFile])) = 2 => sync.result = "unchanged"

----------------------------------------------------------------------------
(* C2: whenever the fetch succeeds and the fetched pair differs from the   *)
(* persisted Release State (in the tag, in the commit or in both), the     *)
(* sync requests every asset of the fetched release and then rewrites      *)
(* Release State to exactly the fetched pair.  (A sync that a local file   *)
(* error ends is not the claim's case.)                                    *)
PersistedPairDiffers ==
    /\ exists(sync.before, ReleaseStateFile)
    /\ \E pair \in KnownPairs :
         /\ sync.before[ReleaseStateFile] = Format(pair[1], pair[2])
         /\ pair # sync.fetched

DownloadedAndRewritten ==
    /\ sync.result = "updated"
    /\ EveryAssetRequested
    /\ exists(files, ReleaseStateFile)
    /\ files[ReleaseStateFile] = Format(sync.fetched[1], sync.fetched[2])

C2_ChangedPairAsClaimed ==
    (ReleaseSyncDone /\ PersistedPairDiffers /\ ~EndedByLocalError)
    => DownloadedAndRewritten

\* What holds of the code in the case of C2: the claim, for every persisted
\* record that reads back as two fields.
C2_ChangedPairWhenReadable ==
    ( /\ ReleaseSyncDone /\ PersistedPairDiffers /\ ~EndedByLocalError
      /\ Len(ReadFields(sync.before[ReleaseStateFile])) = 2 )
    => DownloadedAndRewritten

----------------------------------------------------------------------------
(* C3: when the metadata fetch of a Release Sync or of a Branch Sync fails *)
(* (HTTP error or network failure), the sync ends as failed, no download   *)
(* is requested and no file is modified: a state file that was absent      *)
(* stays absent, one that was present keeps its content.                   *)
C3_FetchFailureChangesNothing ==
    sync.fetch \in {"http_error", "network_error"}
    => /\ sync.done /\ sync.result = "failed"
       /\ sync.reqs = <<>>
       /\ files = sync.before
       /\ SameFile(files, sync.before, ReleaseStateFile)
       /\ SameFile(files, sync.before, BranchStateFile)

\* A release sync failed in its fetch while both state files were present
C3_Witness ==
    /\ sync.kind = "release" /\ sync.fetch = "network_error" /\ sync.done
    /\ exists(files, ReleaseStateFile) /\ exists(files, BranchStateFile)
    /\ files[BranchStateFile] # <<>>

----------------------------------------------------------------------------
(* C4: a state file is overwritten only after a successful download in the *)
(* same sync: a sync whose fetch failed or whose download failed leaves    *)
(* the persisted state as it was.                                          *)
StateFileOfSync ==
    IF sync.kind = "release" THEN ReleaseStateFile ELSE BranchStateFile

SomeDownloadFailed == \E i \in 1..Len(sync.reqs) : sync.reqs[i].outcome # "ok"

C4_StateOnlyAfterSuccessfulDownload ==
    ( /\ sync.kind \in {"release", "master"} /\ sync.done
      /\ sync.fetch # "ok" \/ SomeDownloadFailed )
    => SameFile(files, sync.before, StateFileOfSync)

----------------------------------------------------------------------------
(* C5: in Release Sync a failure while downloading one asset does not      *)
(* abort the remaining assets or the sync: for every subset of assets      *)
(* whose download fails, every asset is still requested in order, Release  *)
(* State is overwritten with the fetched pair and the sync ends as         *)
(* updated.  (A sync that an error outside download_file ends, in the      *)
(* notes or in the state file, is not the claim's case.)                   *)
AssetLocalError ==
    /\ sync.reqs # <<>>
    /\ sync.reqs[Len(sync.reqs)].outcome \in LocalFailures

C5_AssetFailureAsClaimed ==
    ( /\ ReleaseSyncDone /\ SomeDownloadFailed
      /\ EndedByLocalError => AssetLocalError )
    => DownloadedAndRewritten

(* C5 as amended: a failure of the request of one asset (an HTTP error     *)
(* status, a connection failure, a broken stream) does not abort the       *)
(* remaining assets or the sync: for every subset of assets whose request  *)
(* fails, every asset is requested in order and, unless a local file error *)
(* ends the sync, Release State is overwritten with the fetched pair and   *)
(* the sync ends as updated.  A local file error while an asset is written *)
(* skips the remaining assets and ends the sync as failed with Release     *)
(* State untouched.                                                        *)
C5_RequestFailureDoesNotAbort ==
    (ReleaseSyncDone /\ SomeDownloadFailed)
    => /\ ~EndedByLocalError => DownloadedAndRewritten
       /\ AssetLocalError =>
            /\ sync.result = "failed"
            /\ Len(sync.reqs) <= Len(sync.assets)
            /\ \A i \in 1..Len(sync.reqs) :
                 sync.reqs[i].url = sync.assets[i].browser_download_url
            /\ \A i \in 1..(Len(sync.reqs) - 1) :
                 sync.reqs[i].outcome \notin LocalFailures
            /\ SameFile(files, sync.before, ReleaseStateFile)

\* The request of each of the two assets of a release failed, and the sync
\* ended as updated
C5_Witness ==
    /\ ReleaseSyncDone /\ sync.result = "updated"
    /\ Len(sync.reqs) = 2
    /\ sync.reqs[1].outcome \in RequestFailures
    /\ sync.reqs[2].outcome \in RequestFailures
    /\ files[ReleaseStateFile] = Format(sync.fetched[1], sync.fetched[2])

----------------------------------------------------------------------------
(* C6: Branch Sync is a no-op on an unchanged head.  Whenever Branch State *)
(* exists with stored sha X and the fetched sha is X, in every call of     *)
(* check_and_download_master no archive download is requested, no file is  *)
(* changed and the call ends as unchanged.                                 *)
C6_BranchNoOp ==
    ( /\ sync.kind = "master" /\ sync.fetch = "ok"
      /\ exists(sync.before, BranchStateFile)
      /\ sync.before[BranchStateFile] = Format(<<"master">>, sync.fetched[1]) )
    => /\ sync.done /\ sync.result = "unchanged"
       /\ sync.reqs = <<>>
       /\ files = sync.before

\* A scheduled branch sync found the stored sha equal to the fetched one
C6_Witness ==
    /\ sync.kind = "master" /\ sync.done /\ sync.result = "unchanged"
    /\ caller = "daily" /\ ticks >= 2
    /\ files[BranchStateFile] = Format(<<"master">>, sync.fetched[1])

----------------------------------------------------------------------------
(* C7: given no persisted Branch State, Branch Sync always downloads the   *)
(* branch archive of the tracked repository and creates Branch State       *)
(* ("master", sha) with the sha fetched in that sync.  (A sync that a      *)
(* local file error ends is not the claim's case.)                         *)
C7_FirstBranchSyncAsClaimed ==
    (BranchSyncDone /\ ~exists(sync.before, BranchStateFile) /\ ~EndedByLocalError)
    => /\ sync.result = "updated"
       /\ Len(sync.reqs) = 1
       /\ sync.reqs[1].url = ArchiveUrl(sync.owner, sync.repo, <<"master">>)
       /\ sync.reqs[1].dest = master_zip_path(variant, sync.repo)
       /\ exists(files, BranchStateFile)
       /\ files[BranchStateFile] = Format(<<"master">>, sync.fetched[1])

\* What holds of the code in the case of C7: the claim in the single
\* variant; in the multi variant all of it but the URL that is requested.
C7_FirstBranchSyncButTheUrl ==
    (BranchSyncDone /\ ~exists(sync.before, BranchStateFile) /\ ~EndedByLocalError)
    => /\ sync.result = "updated"
       /\ Len(sync.reqs) = 1
       /\ variant = "single" =>
            sync.reqs[1].url = ArchiveUrl(sync.owner, sync.repo, <<"master">>)
       /\ sync.reqs[1].dest = master_zip_path(variant, sync.repo)
       /\ exists(files, BranchStateFile)
       /\ files[BranchStateFile] = Format(<<"master">>, sync.fetched[1])

----------------------------------------------------------------------------
(* C8: in the multi-repository variant two distinct configured             *)
(* repositories (distinct (owner, name) pairs) have independent state: a   *)
(* sync of one never modifies a file of the other (its state files, its    *)
(* archive, its notes, its assets), so that with both remotes unchanged    *)
(* and no failure no scheduled sync requests a download.                   *)
Under(path, dir) == Len(path) > Len(dir) /\ SubSeq(path, 1, Len(dir)) = dir

\* The sync changed or removed a file that was there when it began
Modified(path) == exists(sync.before, path) /\ ~SameFile(files, sync.before, path)

OtherRepos ==
    { parse_github_url(repositories[j]) :
        j \in { i \in 1..Len(repositories) :
                  /\ Accepted(variant, repositories[i])
                  /\ parse_github_url(repositories[i]) # <<sync.owner, sync.repo>> } }

FilesOf(other) ==
    { path \in DOMAIN sync.before : Under(path, repo_dir(variant, other[2])) }

NoRedownload ==
    (caller = "daily" /\ publishes = 0 /\ faults = 0) => sync.reqs = <<>>

C8_IndependentState ==
    (variant = "multi" /\ sync.kind # "none")
    => /\ \A other \in OtherRepos : \A path \in FilesOf(other) : ~Modified(path)
       /\ NoRedownload

\* What holds of the code in the case of C8: the claim for repositories
\* whose names differ.
C8_IndependentWhenNamesDiffer ==
    (variant = "multi" /\ sync.kind # "none")
    => /\ \A other \in OtherRepos :
            other[2] # sync.repo => \A path \in FilesOf(other) : ~Modified(path)
       /\ (\A other \in OtherRepos : other[2] # sync.repo) => NoRedownload

----------------------------------------------------------------------------
(* C9: a repository URL whose path has fewer than two non-empty segments   *)
(* is rejected before any network request is made for it and before any    *)
(* directory or scheduled task is created for it; the single variant exits *)
(* with nothing created, and in the multi variant every other URL of the   *)
(* list that names an owner and a repo is still set up (its directories,   *)
(* its daily task) and synced.                                             *)
NonEmptySegments(url) ==
    LET segs == Split(UrlPath(url), "/") IN
    Cardinality({ i \in 1..Len(segs) : segs[i] # <<>> })

Malformed(url) == NonEmptySegments(url) < 2

WellFormed(url) ==
    LET segs == Split(Strip(UrlPath(url), {"/"}), "/") IN
    Len(segs) >= 2 /\ segs[1] # <<>> /\ segs[2] # <<>>

C9_MalformedUrlRejected ==
    /\ \A i \in 1..Len(repositories) :
         Malformed(repositories[i])
         => /\ i \notin touched.net
            /\ i \notin touched.dir
            /\ i \notin touched.task
            /\ \A j \in 1..Len(jobs) : jobs[j].idx # i
    /\ (variant = "single" /\ Malformed(repositories[1]))
         => /\ pc \in {"start", "exited", "stopped"}
            /\ files = NoFiles /\ dirs = {} /\ jobs = <<>>
    /\ (variant = "multi" /\ pc = "idle")
         => \A j \in 1..Len(repositories) :
              WellFormed(repositories[j])
              => /\ j \in touched.dir
                 /\ repo_dir(variant, parse_github_url(repositories[j])[2]) \in dirs
                 /\ releases_dir(variant, parse_github_url(repositories[j])[2]) \in dirs
                 /\ \E k \in 1..Len(jobs) : jobs[k].idx = j
                 /\ ticks >= 1 => j \in touched.net

\* The multi variant went past a malformed URL, set up the URL after it and
\* ran its syncs
C9_Witness ==
    /\ variant = "multi" /\ pc = "idle" /\ ticks >= 1
    /\ Len(repositories) = 2
    /\ Malformed(repositories[1])
    /\ 2 \in touched.net /\ 2 \in touched.dir /\ 2 \in touched.task
    /\ 1 \notin touched.net

----------------------------------------------------------------------------
(* C10: no error raised inside a sync attempt escapes it.  After every     *)
(* failure (of the fetch, of reading the state file back, of a download,   *)
(* of a local file write) the sync function returns: the process never     *)
(* dies of an exception, the release sync is entered when the master sync  *)
(* has returned, however it ended, and the process leaves its run only by  *)
(* an interrupt (or, in the single variant, by the exit on a bad URL).     *)
C10_NoErrorEscapes ==
    [][ /\ pc' # "crashed"
        /\ (sync.result = "failed" /\ sync.done) => pc \in {"m_done", "r_done", "schedule", "idle", "start", "stopped"}
        /\ pc = "m_done" =>
             \/ pc' = "r_fetch" /\ sync'.kind = "release" /\ sync'.prev = sync.result
             \/ pc' = "stopped"
        /\ (pc = "r_done" /\ caller = "daily") =>
             pc' \in {"m_fetch", "idle", "stopped"}
        /\ (pc' = "stopped" /\ pc # "stopped") =>
             UNCHANGED <<files, dirs, jobs, sync, remote>>
      ]_vars

\* The release sync of a scheduled check ran to its end after the master
\* sync of the same check had failed, and failed itself reading its state
\* file back or writing a file; the scheduler loop is running
C10_Witness ==
    /\ pc = "idle" /\ ticks >= 1
    /\ sync.kind = "release" /\ sync.done
    /\ sync.prev = "failed"
    /\ sync.result = "failed"
    /\ sync.error \in {"ValueError", "open_oserror", "write_oserror"}

----------------------------------------------------------------------------
(* C11: every failure is transient.  Whatever happened before (failed,     *)
(* updated or cut-short syncs, any tag and commit the remote has           *)
(* reported), a scheduled sync in which the fetch and every download       *)
(* succeed and no local file operation fails does not end as failed, and   *)
(* when it has ended the state file holds exactly the record of the        *)
(* fetched remote state (so that the syncs of later ticks end unchanged).  *)
RecordOfFetched ==
    IF sync.kind = "release" THEN Format(sync.fetched[1], sync.fetched[2])
    ELSE Format(<<"master">>, sync.fetched[1])

NothingFailedInSync ==
    /\ sync.kind \in {"release", "master"} /\ sync.done
    /\ sync.fetch = "ok"
    /\ ~SomeDownloadFailed
    /\ ~EndedByLocalError

C11_EveryFailureTransient ==
    (caller = "daily" /\ NothingFailedInSync)
    => /\ sync.result \in {"unchanged", "updated"}
       /\ exists(files, StateFileOfSync)
       /\ files[StateFileOfSync] = RecordOfFetched

\* What holds of the code in the case of C11: the claim for every sync
\* that finds no state file or one that reads back as two fields.
C11_TransientWhenReadable ==
    ( /\ caller = "daily" /\ NothingFailedInSync
      /\ exists(sync.before, StateFileOfSync)
           => Len(ReadFields(sync.before[StateFileOfSync])) = 2 )
    => /\ sync.result \in {"unchanged", "updated"}
       /\ exists(files, StateFileOfSync)
       /\ files[StateFileOfSync] = RecordOfFetched

----------------------------------------------------------------------------
(* C12: the state update is atomic with respect to crashes.  Whenever the  *)
(* process has been terminated, at any point inside a sync, or a sync has  *)
(* returned, each state file is either absent or holds a complete record   *)
(* (the previously persisted one or the newly fetched one): it is never    *)
(* empty or partially written.                                             *)
StateFiles ==
    { path \in DOMAIN files :
        path[Len(path)] \in {VERSION_FILE_RELEASE, VERSION_FILE_MASTER} }

CompleteRecords ==
    { Format(pair[1], pair[2]) : pair \in KnownPairs }
        \cup { Format(<<"master">>, sha) : sha \in Shas }

C12_StateUpdateAtomic ==
    (pc = "stopped" \/ sync.done)
    => \A path \in StateFiles : files[path] \in CompleteRecords

\* What holds of the code in the case of C12: a state file is never
\* partially written, it is a complete record or empty.
C12_CompleteOrEmpty ==
    \A path \in StateFiles : files[path] \in CompleteRecords \cup {<<>>}

----------------------------------------------------------------------------
(* C13: starting from a run with no state files, whenever the process has  *)
(* been terminated or a sync has returned, the Release State file of a     *)
(* tracked repository is present if and only if at least one Release Sync  *)
(* of it has completed successfully (ended as updated), and its Branch     *)
(* State file is present if and only if at least one Branch Sync of it     *)
(* has.                                                                    *)
Tracked == { i \in 1..Len(repositories) : Accepted(variant, repositories[i]) }

StateFileOf(kind, i) ==
    LET repo == parse_github_url(repositories[i])[2] IN
    IF kind = "release" THEN version_file_release(variant, repo)
    ELSE version_file_master(variant, repo)

C13_PresentIffSynced ==
    (pc = "stopped" \/ sync.done)
    => \A i \in Tracked : \A kind \in {"release", "master"} :
         exists(files, StateFileOf(kind, i)) <=> <<kind, i>> \in touched.synced

\* What holds of the code in the case of C13: a state file is present once
\* a sync of its kind has ended as updated, and in the single variant a
\* state file that holds a record was written by such a sync.
C13_SyncedThenPresent ==
    \A i \in Tracked : \A kind \in {"release", "master"} :
      /\ <<kind, i>> \in touched.synced => exists(files, StateFileOf(kind, i))
      /\ ( /\ variant = "single"
           /\ exists(files, StateFileOf(kind, i))
           /\ files[StateFileOf(kind, i)] # <<>> )
         => <<kind, i>> \in touched.synced

----------------------------------------------------------------------------
(* C14: in Branch Sync, once the fetch succeeded and the fetched sha       *)
(* differs from the stored one (or none is stored), Branch State is        *)
(* overwritten with (branch, sha) even when the archive download or the    *)
(* archive write failed: a failure inside download_file never prevents     *)
(* the state update.  (A sync that an error of the state file's own write  *)
(* ends is not the claim's case.)                                          *)
StoredShaDiffers ==
    \/ ~exists(sync.before, BranchStateFile)
    \/ \E sha \in Shas \ {sync.fetched[1]} :
         sync.before[BranchStateFile] = Format(<<"master">>, sha)

BranchStateOverwritten ==
    /\ sync.result = "updated"
    /\ exists(files, BranchStateFile)
    /\ files[BranchStateFile] = Format(<<"master">>, sync.fetched[1])

C14_ArchiveFailureAsClaimed ==
    ( /\ BranchSyncDone /\ StoredShaDiffers /\ SomeDownloadFailed
      /\ EndedByLocalError => AssetLocalError )
    => BranchStateOverwritten

(* C14 as amended: in Branch Sync, once the fetch succeeded and the        *)
(* fetched sha differs from the stored one (or none is stored), a failure  *)
(* of the archive request (an HTTP error status, a connection failure, a   *)
(* broken stream) is logged inside download_file and does not prevent the  *)
(* state update: unless a local file error ends the sync, Branch State is  *)
(* overwritten with (branch, sha).  A local file error while the archive   *)
(* is written ends the sync as failed with Branch State untouched.         *)
C14_RequestFailureStillUpdates ==
    (BranchSyncDone /\ StoredShaDiffers /\ SomeDownloadFailed)
    => /\ ~EndedByLocalError => BranchStateOverwritten
       /\ AssetLocalError =>
            /\ sync.result = "failed"
            /\ SameFile(files, sync.before, BranchStateFile)

\* A scheduled branch sync found a new head commit, the archive request
\* failed, and Branch State was overwritten with the new sha
C14_Witness ==
    /\ BranchSyncDone /\ sync.result = "updated" /\ caller = "daily"
    /\ exists(sync.before, BranchStateFile)
    /\ sync.before[BranchStateFile] # <<>>
    /\ sync.before[BranchStateFile] # files[BranchStateFile]
    /\ sync.reqs[1].outcome \in RequestFailures
    /\ files[BranchStateFile] = Format(<<"master">>, sync.fetched[1])

----------------------------------------------------------------------------
(* C15: a Release Sync that was cut short after some assets had been       *)
(* written and before the Release State file was rewritten is retried in   *)
(* full: the next sync that fetches the same release (and in which nothing *)
(* fails) requests every asset of the release again, those on disk         *)
(* included, and only then rewrites Release State.                         *)
(* The cut-short sync is known by what it left: an asset of the fetched    *)
(* release on disk, and a state file that is not the record of the         *)
(* fetched pair.                                                           *)
AssetOnDisk(fs, asset) ==
    LET dest == Join(releases_dir(variant, sync.repo), asset.name) IN
    exists(fs, dest) /\ fs[dest] = Body(asset.browser_download_url)

LeftByCutShortSync ==
    /\ sync.kind = "release" /\ sync.fetch = "ok"
    /\ \E i \in 1..Len(sync.assets) : AssetOnDisk(sync.before, sync.assets[i])
    /\ ~ ( /\ exists(sync.before, ReleaseStateFile)
           /\ sync.before[ReleaseStateFile] = Format(sync.fetched[1], sync.fetched[2]) )

StateOnlyAfterAssets ==
    (sync.kind = "release" /\ pc = "r_asset")
    => SameFile(files, sync.before, ReleaseStateFile)

C15_CutShortRetriedInFull ==
    /\ (LeftByCutShortSync /\ NothingFailedInSync) => DownloadedAndRewritten
    /\ StateOnlyAfterAssets

\* What holds of the code in the case of C15: the claim whenever the
\* cut-short sync left the state file absent or with a record that reads
\* back as two fields.
C15_RetriedWhenReadable ==
    /\ ( /\ LeftByCutShortSync /\ NothingFailedInSync
         /\ exists(sync.before, ReleaseStateFile)
              => Len(ReadFields(sync.before[ReleaseStateFile])) = 2 )
       => DownloadedAndRewritten
    /\ StateOnlyAfterAssets

----------------------------------------------------------------------------
(* C16: for every tracked repository (owner, repo) the archive that Branch *)
(* Sync requests is the one of that repository: the URL is built on the    *)
(* web host from the tracked owner and repo name, as                       *)
(* {owner}/{repo}/archive/refs/heads/{branch}.zip, in both variants.       *)
C16_ArchiveOfTrackedRepository ==
    (sync.kind = "master" /\ sync.reqs # <<>>)
    => \A i \in 1..Len(sync.reqs) :
         sync.reqs[i].url =
            <<WebHost, "/">> \o sync.owner \o <<"/">> \o sync.repo
               \o <<"/", "archive", "/", "refs", "/", "heads", "/", "master", ".zip">>

\* What holds of the code in the case of C16: the claim in the single
\* variant; the multi variant requests the archive of the "repository"
\* named by the first two path segments of the API URL, repos/{owner}.
C16_ArchiveUrlOfEachVariant ==
    (sync.kind = "master" /\ sync.reqs # <<>>)
    => /\ Len(sync.reqs) = 1
       /\ sync.reqs[1].url =
            IF variant = "single"
            THEN ArchiveUrl(sync.owner, sync.repo, <<"master">>)
            ELSE ArchiveUrl(<<"repos">>, sync.owner, <<"master">>)

----------------------------------------------------------------------------
(* C17: on the first run of a repository (state files absent) Release Sync *)
(* runs first and Branch Sync runs after it has finished, both before the  *)
(* daily task is registered; the daily task runs the two syncs of one      *)
(* repository to completion before the next repository's sync begins.      *)
SyncBegins == sync.done /\ ~sync'.done

FirstRun(i) ==
    \/ ~exists(files, StateFileOf("master", i))
    \/ ~exists(files, StateFileOf("release", i))

\* The parts of the claim that do not depend on which sync comes first
SyncsBeforeTaskAndInTurn ==
    \* the first run starts the syncs, and no task is registered yet
    /\ ( /\ pc = "start" /\ pc' # "stopped"
         /\ Accepted(variant, repositories[idx]) /\ FirstRun(idx) )
       => /\ SyncBegins /\ caller' = "initial" /\ sync'.idx = idx
          /\ idx \notin touched.task
    \* the task is registered after the second sync of the first run
    /\ jobs' # jobs
       => /\ jobs' = Append(jobs, cur)
          /\ \/ sync.idx = cur.idx /\ sync.done /\ sync.prev # "none"
             \/ ~FirstRun(cur.idx)
    \* a scheduled check begins when the check before it has run both syncs
    /\ (SyncBegins /\ caller' = "daily" /\ sync'.prev = "none")
       => /\ sync'.idx = jobs[job'].idx
          /\ job' > 1 => ( /\ sync.idx = jobs[job' - 1].idx /\ caller = "daily"
                           /\ sync.prev # "none" )
    \* the second sync of a check begins when its first sync has returned,
    \* and is about the same repository
    /\ (SyncBegins /\ sync'.prev # "none")
       => /\ sync.prev = "none" /\ sync.kind # "none"
          /\ sync'.idx = sync.idx /\ sync'.prev = sync.result
          /\ sync'.kind # sync.kind

C17_ReleaseThenBranchAsClaimed ==
    [][ /\ SyncsBeforeTaskAndInTurn
        /\ (SyncBegins /\ sync'.prev = "none") => sync'.kind = "release"
        /\ (SyncBegins /\ sync'.prev # "none") => sync'.kind = "master"
      ]_vars

(* C17 as amended: on the first run of a repository (a state file absent)  *)
(* Branch Sync runs first and Release Sync runs after it has finished,     *)
(* both before the daily task is registered; the daily task runs the two   *)
(* syncs of one repository, in the same order, to completion before the    *)
(* next repository's sync begins.                                          *)
C17_BranchThenRelease ==
    [][ /\ SyncsBeforeTaskAndInTurn
        /\ (SyncBegins /\ sync'.prev = "none") => sync'.kind = "master"
        /\ (SyncBegins /\ sync'.prev # "none") => sync'.kind = "release"
      ]_vars

\* Two repositories had their first run, each its two syncs before its task
\* was registered, and the scheduled check of the second has run both syncs
C17_Witness ==
    /\ variant = "multi" /\ Len(jobs) = 2 /\ job = 2 /\ caller = "daily"
    /\ sync.kind = "release" /\ sync.done /\ sync.idx = 2
    /\ sync.prev # "none"
    /\ {<<"master", 1>>, <<"release", 1>>, <<"master", 2>>, <<"release", 2>>}
         \subseteq touched.synced

----------------------------------------------------------------------------
(* C18: round trip of the persisted record.  For every (tag_name,          *)
(* target_commitish) pair a Release Sync writes and every (branch, sha)    *)
(* pair a Branch Sync writes, the read path of the next sync (strip, split *)
(* on ',') parses the file back into exactly the written pair, so that a   *)
(* sync directly after an updated sync with the same remote ends as        *)
(* unchanged.                                                              *)
WrittenPair ==
    IF sync.kind = "release" THEN <<sync.fetched[1], sync.fetched[2]>>
    ELSE << <<"master">>, sync.fetched[1] >>

C18_RecordRoundTrip ==
    (sync.kind \in {"release", "master"} /\ sync.done /\ sync.result = "updated")
    => /\ exists(files, StateFileOfSync)
       /\ ReadFields(files[StateFileOfSync]) = WrittenPair

\* What holds of the code in the case of C18: the round trip of every pair
\* whose fields hold no comma.
C18_RoundTripWithoutComma ==
    ( /\ sync.kind \in {"release", "master"} /\ sync.done /\ sync.result = "updated"
      /\ \A f \in 1..2 : \A k \in 1..Len(WrittenPair[f]) : WrittenPair[f][k] # "," )
    => /\ exists(files, StateFileOfSync)
       /\ ReadFields(files[StateFileOfSync]) = WrittenPair

----------------------------------------------------------------------------
(* C19: independence of the two tracked resources of one repository.       *)
(* Release Sync never creates or modifies the Branch State file or the     *)
(* branch archive; Branch Sync never creates or modifies the Release State *)
(* file, the release notes or a release asset; and the outcome of each     *)
(* sync follows from its own fetch, its own state file and its own         *)
(* errors, whatever the outcome of the other sync of the same tick.        *)
BranchArchive == master_zip_path(variant, sync.repo)
ReleaseNotes == release_notes_file(variant, sync.repo)

HoldsAsset(fs, path) ==
    /\ exists(fs, path)
    /\ \E r \in RemoteReleases : \E i \in 1..Len(r.asset_names) :
         fs[path] = Body(AssetUrl(sync.owner, sync.repo, r.tag_name, r.asset_names[i]))

OutcomeIsOwn ==
    (sync.kind \in {"release", "master"} /\ sync.done)
    => /\ sync.result = "failed" <=> sync.error # "none"
       /\ sync.error \in {"http_error", "network_error"} <=> sync.fetch # "ok"
       /\ sync.result = "unchanged" <=>
            /\ sync.fetch = "ok"
            /\ exists(sync.before, StateFileOfSync)
            /\ Len(ReadFields(sync.before[StateFileOfSync])) = 2
            /\ IF sync.kind = "release"
               THEN ReadFields(sync.before[StateFileOfSync]) = WrittenPair
               ELSE ReadFields(sync.before[StateFileOfSync])[2] = sync.fetched[1]

C19_ResourcesIndependent ==
    /\ sync.kind = "release"
       => /\ SameFile(files, sync.before, BranchStateFile)
          /\ SameFile(files, sync.before, BranchArchive)
    /\ sync.kind = "master"
       => /\ SameFile(files, sync.before, ReleaseStateFile)
          /\ SameFile(files, sync.before, ReleaseNotes)
          /\ \A path \in DOMAIN sync.before :
                HoldsAsset(sync.before, path) => SameFile(files, sync.before, path)
    /\ OutcomeIsOwn

\* What holds of the code in the case of C19: the claim in the multi
\* variant; in the single variant all of it but the archive and the assets,
\* which share the download directory.
C19_IndependentButSharedDirectory ==
    /\ sync.kind = "release"
       => /\ SameFile(files, sync.before, BranchStateFile)
          /\ variant = "multi" => SameFile(files, sync.before, BranchArchive)
    /\ sync.kind = "master"
       => /\ SameFile(files, sync.before, ReleaseStateFile)
          /\ SameFile(files, sync.before, ReleaseNotes)
          /\ variant = "multi" =>
               \A path \in DOMAIN sync.before :
                 HoldsAsset(sync.before, path) => SameFile(files, sync.before, path)
    /\ OutcomeIsOwn

====
